---- MODULE Spec2Model ----
(***************************************************************************)
(* Validated configuration models of the type-system lesson:               *)
(*   src/foundations/01_type_system/lesson.py          (no prefix)         *)
(*   src/foundations/01_type_system/odibi_snippets.py  (prefix odibi_)     *)
(*   src/foundations/01_type_system/exercises.py       (TODO stubs)        *)
(* the divide function of                                                  *)
(*   src/foundations/02_pytest_fundamentals/test_basic.py                  *)
(* and the reset_environment and cleanup_files fixtures of                 *)
(*   src/foundations/02_pytest_fundamentals/conftest_example.py            *)
(* Init draws the class and the document of one construction call from     *)
(* bounded sets; the call is one action, which runs the class's validators *)
(* as pydantic runs them (every field's validators, then the mode="after"  *)
(* model validator only when every field passed) and records the object    *)
(* returned or the errors raised.                                          *)
(***************************************************************************)
EXTENDS Integers, Sequences, FiniteSets, TLC

VARIABLES call, pc, ret, graph, dumped, rebuilt, heap, held,
          environ, original_env, fs, created_files, raised

vars == <<call, pc, ret, graph, dumped, rebuilt, heap, held,
          environ, original_env, fs, created_files, raised>>

(***************************************************************************)
(* Bounds of the model.                                                    *)
(***************************************************************************)
MaxNameLen == 3
MaxDeps == 2
MaxJobs == 3
MaxSteps == 2
MaxDividend == 10
MaxDivisor == 3
MaxConfigs == 3
MaxItems == 2
MaxTracked == 3

(***************************************************************************)
(* Python values.  Optional[T] is a set with at most one element: None is  *)
(* {} and a present value v is {v}.  A str field that only its truthiness  *)
(* is asked of is "" or a non-empty TLA+ string; a str that is trimmed,    *)
(* lowercased and matched is a sequence of characters.                     *)
(***************************************************************************)
None == {}

Some(v) == {v}

Get(o) == CHOOSE v \in o : TRUE

\* bool(o) of an Optional[str]: None and "" are falsy.
Truthy(o) == o # None /\ o # Some("")

\* `o is not None`
IsNotNone(o) == o # None

\* What a validator does: return a value or raise ValueError(msg).
\* A message is its text and, for an f-string, the value formatted into it.
Msg(text) == [text |-> text, arg |-> <<>>]

MsgOf(text, v) == [text |-> text, arg |-> v]

Return(v) == [ok |-> TRUE, val |-> v, err |-> Msg("")]

Raise(msg) == [ok |-> FALSE, val |-> <<>>, err |-> msg]

\* What a construction call does: return the object or raise a
\* ValidationError carrying the errors (location, message) it collected.
\* A location is the path of field names to the value; <<>> is the model.
Built(cls, obj) == [ok |-> TRUE, cls |-> cls, value |-> obj, errors |-> {}]

Failed(cls, errs) == [ok |-> FALSE, cls |-> cls, value |-> <<>>, errors |-> errs]

Err(loc, msg) == [loc |-> loc, msg |-> msg]

\* The optional string arguments a document may give a field.
OptStr(s) == {None, Some(""), Some(s)}

(***************************************************************************)
(* Characters and str methods.  U+0130 is LATIN CAPITAL LETTER I WITH DOT  *)
(* ABOVE, an alphanumeric character whose lower() is "i" followed by the   *)
(* combining mark U+0307, which is not alphanumeric.                       *)
(***************************************************************************)
Alphabet == {"a", "A", "1", "_", " ", "-", "U+0130"}

\* c.isspace()
char_isspace(c) == c = " "

\* c.isalnum()
char_isalnum(c) == c \in {"a", "A", "1", "i", "U+0130"}

\* c.lower(), a str of one or two characters
char_lower(c) ==
    CASE c = "A" -> <<"a">>
      [] c = "U+0130" -> <<"i", "U+0307">>
      [] OTHER -> <<c>>

RECURSIVE lstrip(_)
lstrip(s) ==
    IF s = <<>> THEN <<>>
    ELSE IF char_isspace(Head(s)) THEN lstrip(Tail(s)) ELSE s

RECURSIVE rstrip(_)
rstrip(s) ==
    IF s = <<>> THEN <<>>
    ELSE IF char_isspace(s[Len(s)]) THEN rstrip(SubSeq(s, 1, Len(s) - 1)) ELSE s

\* s.strip()
strip(s) == rstrip(lstrip(s))

RECURSIVE lower(_)
\* s.lower()
lower(s) == IF s = <<>> THEN <<>> ELSE char_lower(Head(s)) \o lower(Tail(s))

RECURSIVE replace_underscore(_)
\* s.replace("_", "")
replace_underscore(s) ==
    IF s = <<>> THEN <<>>
    ELSE IF Head(s) = "_" THEN replace_underscore(Tail(s))
         ELSE <<Head(s)>> \o replace_underscore(Tail(s))

\* s.isalnum(): every character alphanumeric and at least one character
isalnum(s) == Len(s) > 0 /\ \A i \in 1..Len(s) : char_isalnum(s[i])

\* The strings of at most n characters over Alphabet.
StrUpTo(n) == UNION {[1..k -> Alphabet] : k \in 0..n}

NameInputs == StrUpTo(MaxNameLen)

(***************************************************************************)
(* odibi_snippets.py: ReadConfig, WriteConfig, TransformStep.              *)
(***************************************************************************)
odibi_ReadConfig_check_table_or_path(self) ==
    IF ~Truthy(self.table) /\ ~Truthy(self.path)
    THEN Raise(Msg("Either 'table' or 'path' must be provided for read config"))
    ELSE Return(self)

odibi_WriteConfig_check_table_or_path(self) ==
    IF ~Truthy(self.table) /\ ~Truthy(self.path)
    THEN Raise(Msg("Either 'table' or 'path' must be provided for write config"))
    ELSE Return(self)

\* sum(x is not None for x in step_types)
CountNotNone(step_types) == Cardinality({i \in DOMAIN step_types : IsNotNone(step_types[i])})

odibi_TransformStep_check_step_type(self) ==
    LET step_types == <<self.sql, self.function, self.operation>>
    IN IF CountNotNone(step_types) # 1
       THEN Raise(Msg("Exactly one of 'sql', 'function', or 'operation' must be provided"))
       ELSE Return(self)

\* A model whose fields all pass and that has one mode="after" validator.
AfterValidator(cls, self, r) ==
    IF r.ok THEN Built(cls, r.val) ELSE Failed(cls, {Err(<<>>, r.err)})

odibi_ReadConfig(table, path) ==
    LET self == [connection |-> "x", format |-> "csv", table |-> table, path |-> path]
    IN AfterValidator("odibi.ReadConfig", self, odibi_ReadConfig_check_table_or_path(self))

odibi_WriteConfig(table, path) ==
    LET self == [connection |-> "x", format |-> "csv", table |-> table, path |-> path,
                 mode |-> "overwrite"]
    IN AfterValidator("odibi.WriteConfig", self, odibi_WriteConfig_check_table_or_path(self))

odibi_TransformStep(sql, function, operation) ==
    LET self == [sql |-> sql, function |-> function, operation |-> operation]
    IN AfterValidator("odibi.TransformStep", self, odibi_TransformStep_check_step_type(self))

(***************************************************************************)
(* lesson.py: WriteConfig, ReadConfig, TransformStep.                      *)
(***************************************************************************)
WriteConfig_check_path_or_table(self) ==
    IF ~Truthy(self.path) /\ ~Truthy(self.table)
    THEN Raise(Msg("Either 'path' or 'table' must be provided"))
    ELSE IF Truthy(self.path) /\ Truthy(self.table)
         THEN Raise(Msg("Cannot specify both 'path' and 'table'"))
         ELSE Return(self)

WriteConfig(path, table) ==
    LET self == [connection |-> "x", path |-> path, table |-> table, mode |-> "overwrite"]
    IN AfterValidator("WriteConfig", self, WriteConfig_check_path_or_table(self))

\* path: str is required and has no constraint; the class declares no table
\* field, and a keyword that names no field is ignored.
ReadConfig(path, table) ==
    IF path = None
    THEN Failed("ReadConfig", {Err(<<"path">>, Msg("Field required"))})
    ELSE Built("ReadConfig", [connection |-> "x", format |-> "csv", path |-> Get(path)])

TransformStep_check_exactly_one(self) ==
    IF ~Truthy(self.sql) /\ ~Truthy(self.function)
    THEN Raise(Msg("Must provide either 'sql' or 'function'"))
    ELSE IF Truthy(self.sql) /\ Truthy(self.function)
         THEN Raise(Msg("Cannot provide both 'sql' and 'function'"))
         ELSE Return(self)

\* The class declares no operation field: the keyword is ignored.
TransformStep(sql, function, operation) ==
    LET self == [sql |-> sql, function |-> function]
    IN AfterValidator("TransformStep", self, TransformStep_check_exactly_one(self))


(***************************************************************************)
(* Nested models.  A field of type Optional[Model] is given None or a      *)
(* document of the model's arguments, which the model's own construction   *)
(* validates; its errors are reported under the field's name.              *)
(***************************************************************************)
Under(field, errs) == {Err(<<field>> \o e.loc, e.msg) : e \in errs}

\* The field is None.
NestedNone == [val |-> None, errors |-> {}]

\* Mutant: a nested document that fails validation is taken as None.
Nested_invalid_as_none(field, r) ==
    IF r.ok THEN [val |-> Some(r.value), errors |-> {}]
    ELSE [val |-> None, errors |-> {}]

\* The field is a document; r is what constructing the nested model gave.
Nested(field, r) ==
    IF r.ok THEN [val |-> Some(r.value), errors |-> {}]
    ELSE [val |-> None, errors |-> Under(field, r.errors)]

\* One field validator's result as a field's value and errors.
Field(field, r) ==
    IF r.ok THEN [val |-> r.val, errors |-> {}]
    ELSE [val |-> <<>>, errors |-> {Err(<<field>>, r.err)}]

\* bool(m) of an Optional[Model]: a model instance is truthy.
Present(o) == o # None

(***************************************************************************)
(* Integer fields declared with Field(default=..., ge=..., le=...).  An    *)
(* argument that is None is a keyword the call does not pass, and the      *)
(* field takes its default.                                                *)
(***************************************************************************)
\* Mutant: only the lower limit is checked.
Constrained_lower_only(field, v, default, ge, le) ==
    IF v = None THEN [val |-> default, errors |-> {}]
    ELSE IF Get(v) < ge
         THEN [val |-> 0, errors |-> {Err(<<field>>, Msg("Input should be greater than or equal to {ge}"))}]
         ELSE [val |-> Get(v), errors |-> {}]

Constrained(field, v, default, ge, le) ==
    IF v = None THEN [val |-> default, errors |-> {}]
    ELSE IF Get(v) < ge
         THEN [val |-> 0, errors |-> {Err(<<field>>, Msg("Input should be greater than or equal to {ge}"))}]
         ELSE IF Get(v) > le
              THEN [val |-> 0, errors |-> {Err(<<field>>, Msg("Input should be less than or equal to {le}"))}]
              ELSE [val |-> Get(v), errors |-> {}]

\* lesson.py: ConnectionConfig.  tags and metadata take their default, a new
\* empty collection.
ConnectionConfig(name, timeout, max_retries) ==
    LET t == Constrained("timeout", timeout, 30, 1, 300)
        m == Constrained("max_retries", max_retries, 3, 0, 10)
        errs == (IF name = None THEN {Err(<<"name">>, Msg("Field required"))} ELSE {})
                \cup t.errors \cup m.errors
    IN IF errs # {} THEN Failed("ConnectionConfig", errs)
       ELSE Built("ConnectionConfig",
                  [name |-> Get(name), timeout |-> t.val, max_retries |-> m.val,
                   tags |-> <<>>, metadata |-> <<>>])

\* odibi_snippets.py: RetryConfig; enabled and backoff take their defaults.
odibi_RetryConfig(max_attempts) ==
    LET m == Constrained("max_attempts", max_attempts, 3, 1, 10)
    IN IF m.errors # {} THEN Failed("odibi.RetryConfig", m.errors)
       ELSE Built("odibi.RetryConfig",
                  [enabled |-> TRUE, max_attempts |-> m.val, backoff |-> "exponential"])

(***************************************************************************)
(* lesson.py: NodeConfig.                                                  *)
(***************************************************************************)
NodeConfig_validate_name(v0) ==
    LET v == strip(v0)
    IN IF v = <<>> THEN Raise(Msg("Node name cannot be empty"))
       ELSE IF ~isalnum(replace_underscore(v))
            THEN Raise(MsgOf("Node name '{v}' must be alphanumeric with underscores", v))
            ELSE Return(lower(v))

\* len(set(v))
LenSet(v) == Cardinality({v[i] : i \in DOMAIN v})

\* Mutant: the length comparison is dropped.
NodeConfig_validate_dependencies_unchecked(v) == Return(v)

NodeConfig_validate_dependencies(v) ==
    IF Len(v) # LenSet(v) THEN Raise(Msg("Duplicate dependencies not allowed"))
    ELSE Return(v)

NodeConfig(name, depends_on) ==
    LET n == Field("name", NodeConfig_validate_name(name))
        d == Field("depends_on", NodeConfig_validate_dependencies(depends_on))
        errs == n.errors \cup d.errors
    IN IF errs # {} THEN Failed("NodeConfig", errs)
       ELSE Built("NodeConfig", [name |-> n.val, depends_on |-> d.val, timeout |-> None])

(***************************************************************************)
(* lesson.py: PipelineNode.                                                *)
(***************************************************************************)
PipelineNode_check_has_operation(self) ==
    IF ~Present(self.read) /\ ~Present(self.write)
    THEN Raise(MsgOf("Node '{self.name}' must have at least one operation", self.name))
    ELSE Return(self)

PipelineNode(name, read, write) ==
    LET r == IF read = None THEN NestedNone
             ELSE Nested("read", ReadConfig(Get(read).path, Get(read).table))
        w == IF write = None THEN NestedNone
             ELSE Nested("write", WriteConfig(Get(write).path, Get(write).table))
        errs == r.errors \cup w.errors
        self == [name |-> name, read |-> r.val, write |-> w.val]
    IN IF errs # {} THEN Failed("PipelineNode", errs)
       ELSE AfterValidator("PipelineNode", self, PipelineNode_check_has_operation(self))

(***************************************************************************)
(* lesson.py: TransformConfig and CompleteNodeConfig.                      *)
(***************************************************************************)
\* Mutant: the list of steps is returned unchecked.
TransformConfig_validate_non_empty_unchecked(v) == Return(v)

TransformConfig_validate_non_empty(v) ==
    IF v = <<>> THEN Raise(Msg("Transform must have at least one step"))
    ELSE Return(v)

\* steps: List[TransformStep]: every element is validated as a TransformStep,
\* then the field validator runs on the list of steps.
TransformConfig(steps) ==
    LET built == [i \in DOMAIN steps |->
                    TransformStep(steps[i].sql, steps[i].function, steps[i].operation)]
        bad == {i \in DOMAIN steps : ~built[i].ok}
        v == [i \in DOMAIN steps |-> built[i].value]
        f == Field("steps", TransformConfig_validate_non_empty(v))
    IN IF bad # {}
       THEN Failed("TransformConfig",
                   UNION {Under("steps", built[i].errors) : i \in bad})
       ELSE IF f.errors # {} THEN Failed("TransformConfig", f.errors)
            ELSE Built("TransformConfig", [steps |-> f.val])

CompleteNodeConfig_validate_name(v0) ==
    LET v == lower(strip(v0))
    IN IF ~isalnum(replace_underscore(v))
       THEN Raise(Msg("Name must be alphanumeric with underscores"))
       ELSE Return(v)

\* Mutant: the model validator checks nothing.
CompleteNodeConfig_check_has_operation_skipped(self) == Return(self)

\* any([self.read, self.transform, self.write])
CompleteNodeConfig_check_has_operation(self) ==
    IF ~(Present(self.read) \/ Present(self.transform) \/ Present(self.write))
    THEN Raise(MsgOf("Node '{self.name}' must have at least one operation", self.name))
    ELSE Return(self)

\* Mutant: construction stops at the first field that fails.
CompleteNodeConfig_first_field_only(name, depends_on, read, transform, write) ==
    LET n == Field("name", CompleteNodeConfig_validate_name(name))
        r == IF read = None THEN NestedNone
             ELSE Nested("read", ReadConfig(Get(read).path, Get(read).table))
        t == IF transform = None THEN NestedNone
             ELSE Nested("transform", TransformConfig(Get(transform).steps))
        w == IF write = None THEN NestedNone
             ELSE Nested("write", WriteConfig(Get(write).path, Get(write).table))
        errs == IF n.errors # {} THEN n.errors
                ELSE IF r.errors # {} THEN r.errors
                ELSE IF t.errors # {} THEN t.errors
                ELSE w.errors
        self == [name |-> n.val, description |-> None, depends_on |-> depends_on,
                 read |-> r.val, transform |-> t.val, write |-> w.val]
    IN IF errs # {} THEN Failed("CompleteNodeConfig", errs)
       ELSE AfterValidator("CompleteNodeConfig", self,
                           CompleteNodeConfig_check_has_operation(self))

\* Mutant: the model validator runs whether or not the fields passed, on the
\* name as given.
CompleteNodeConfig_validator_always(name, depends_on, read, transform, write) ==
    LET n == Field("name", CompleteNodeConfig_validate_name(name))
        r == IF read = None THEN NestedNone
             ELSE Nested("read", ReadConfig(Get(read).path, Get(read).table))
        t == IF transform = None THEN NestedNone
             ELSE Nested("transform", TransformConfig(Get(transform).steps))
        w == IF write = None THEN NestedNone
             ELSE Nested("write", WriteConfig(Get(write).path, Get(write).table))
        given == [name |-> name, description |-> None, depends_on |-> depends_on,
                  read |-> r.val, transform |-> t.val, write |-> w.val]
        m == CompleteNodeConfig_check_has_operation(given)
        errs == n.errors \cup r.errors \cup t.errors \cup w.errors
                \cup (IF m.ok THEN {} ELSE {Err(<<>>, m.err)})
    IN IF errs # {} THEN Failed("CompleteNodeConfig", errs)
       ELSE Built("CompleteNodeConfig", [given EXCEPT !.name = n.val])

CompleteNodeConfig(name, depends_on, read, transform, write) ==
    LET n == Field("name", CompleteNodeConfig_validate_name(name))
        r == IF read = None THEN NestedNone
             ELSE Nested("read", ReadConfig(Get(read).path, Get(read).table))
        t == IF transform = None THEN NestedNone
             ELSE Nested("transform", TransformConfig(Get(transform).steps))
        w == IF write = None THEN NestedNone
             ELSE Nested("write", WriteConfig(Get(write).path, Get(write).table))
        errs == n.errors \cup r.errors \cup t.errors \cup w.errors
        self == [name |-> n.val, description |-> None, depends_on |-> depends_on,
                 read |-> r.val, transform |-> t.val, write |-> w.val]
    IN IF errs # {} THEN Failed("CompleteNodeConfig", errs)
       ELSE AfterValidator("CompleteNodeConfig", self,
                           CompleteNodeConfig_check_has_operation(self))

(***************************************************************************)
(* odibi_snippets.py: NodeConfig.  The file does not define the            *)
(* TransformConfig its transform field names; the field is given None or   *)
(* an already constructed instance.                                        *)
(***************************************************************************)
\* any([self.read, self.transform, self.write])
odibi_NodeConfig_check_at_least_one_operation(self) ==
    IF ~(Present(self.read) \/ Present(self.transform) \/ Present(self.write))
    THEN Raise(MsgOf("Node '{self.name}' must have at least one of: read, transform, write",
                     self.name))
    ELSE Return(self)

odibi_NodeConfig(name, depends_on, read, transform, write) ==
    LET r == IF read = None THEN NestedNone
             ELSE Nested("read", odibi_ReadConfig(Get(read).table, Get(read).path))
        w == IF write = None THEN NestedNone
             ELSE Nested("write", odibi_WriteConfig(Get(write).table, Get(write).path))
        errs == r.errors \cup w.errors
        self == [name |-> name, description |-> None, depends_on |-> depends_on,
                 read |-> r.val, transform |-> transform, write |-> w.val,
                 cache |-> FALSE, validation |-> None]
    IN IF errs # {} THEN Failed("odibi.NodeConfig", errs)
       ELSE AfterValidator("odibi.NodeConfig", self,
                           odibi_NodeConfig_check_at_least_one_operation(self))

(***************************************************************************)
(* exercises.py: PipelineConfig.  The class body is left to the learner    *)
(* (a TODO stub); its validation is modelled from the specification's      *)
(* sections 3 and 4.1: the field-level pass checks that jobs is non-empty  *)
(* and max_parallel and retry_attempts are in range, then the cross-record *)
(* pass checks, in the order it lists them and stopping at the first       *)
(* violation, job-name uniqueness, that every depends_on entry names a     *)
(* declared job, and that the dependency graph is acyclic.                 *)
(***************************************************************************)
JobNames == {"a", "b", "c"}

\* A validated job: a canonical name and the set of other jobs it depends on.
JobDocs == {j \in [name : JobNames, depends_on : SUBSET JobNames] : j.name \notin j.depends_on}

JobLists == UNION {[1..k -> JobDocs] : k \in 0..MaxJobs}

DeclaredNames(jobs) == {jobs[i].name : i \in DOMAIN jobs}

\* job name -> the set of names it depends on
DependsMap(jobs) ==
    [n \in DeclaredNames(jobs) |->
        UNION {jobs[i].depends_on : i \in {k \in DOMAIN jobs : jobs[k].name = n}}]

\* The names on the traversal's stack, bottom first.
StackNodes(stack) == [i \in DOMAIN stack |-> stack[i].node]

OnStack(stack) == {stack[i].node : i \in DOMAIN stack}

\* The stack's nodes from d (which is on the stack) to the top.
CycleFrom(stack, d) ==
    LET at == CHOOSE i \in DOMAIN stack : stack[i].node = d
    IN SubSeq(StackNodes(stack), at, Len(stack))

RECURSIVE Traverse_visited_first(_, _, _)
\* Mutant: a node already visited is skipped before the on-stack test.
Traverse_visited_first(deps, stack, visited) ==
    IF stack = <<>> THEN [cycle |-> <<>>, visited |-> visited]
    ELSE LET top == stack[Len(stack)]
         IN IF top.todo = {}
            THEN Traverse_visited_first(deps, SubSeq(stack, 1, Len(stack) - 1), visited)
            ELSE LET d == CHOOSE x \in top.todo : TRUE
                     rest == [stack EXCEPT ![Len(stack)].todo = @ \ {d}]
                 IN IF d \in visited THEN Traverse_visited_first(deps, rest, visited)
                    ELSE IF d \in OnStack(stack)
                         THEN [cycle |-> CycleFrom(stack, d), visited |-> visited]
                         ELSE Traverse_visited_first(deps,
                                  Append(rest, [node |-> d, todo |-> deps[d]]),
                                  visited \cup {d})

RECURSIVE Traverse(_, _, _)
\* Iterative depth-first traversal with an explicit stack of (node, edges
\* still to follow): the cycle found, or <<>>, and the nodes visited.
Traverse(deps, stack, visited) ==
    IF stack = <<>> THEN [cycle |-> <<>>, visited |-> visited]
    ELSE LET top == stack[Len(stack)]
         IN IF top.todo = {}
            THEN Traverse(deps, SubSeq(stack, 1, Len(stack) - 1), visited)
            ELSE LET d == CHOOSE x \in top.todo : TRUE
                     rest == [stack EXCEPT ![Len(stack)].todo = @ \ {d}]
                 IN IF d \in OnStack(stack)
                    THEN [cycle |-> CycleFrom(stack, d), visited |-> visited]
                    ELSE IF d \in visited THEN Traverse(deps, rest, visited)
                         ELSE Traverse(deps,
                                       Append(rest, [node |-> d, todo |-> deps[d]]),
                                       visited \cup {d})

RECURSIVE FindCycle(_, _, _, _)
\* A traversal from each job not yet visited, in declaration order.
FindCycle(jobs, deps, i, visited) ==
    IF i > Len(jobs) THEN <<>>
    ELSE LET n == jobs[i].name
         IN IF n \in visited THEN FindCycle(jobs, deps, i + 1, visited)
            ELSE LET t == Traverse(deps, <<[node |-> n, todo |-> deps[n]]>>,
                                   visited \cup {n})
                 IN IF t.cycle # <<>> THEN t.cycle
                    ELSE FindCycle(jobs, deps, i + 1, t.visited)

\* Mutant: only neighbouring jobs are compared.
HasDuplicateNames_adjacent(jobs) ==
    \E i \in DOMAIN jobs : i + 1 \in DOMAIN jobs /\ jobs[i].name = jobs[i + 1].name

HasDuplicateNames(jobs) == \E i, k \in DOMAIN jobs : i # k /\ jobs[i].name = jobs[k].name

\* The (job, entry) pairs whose depends_on entry names no declared job.
Dangling(jobs) ==
    {e \in JobNames \X JobNames :
        /\ e[2] \notin DeclaredNames(jobs)
        /\ \E i \in DOMAIN jobs : jobs[i].name = e[1] /\ e[2] \in jobs[i].depends_on}

\* Mutant: an undeclared entry is reported by the cycle check, as a cycle.
CrossRecordPass_dangling_as_cycle(jobs) ==
    IF HasDuplicateNames(jobs)
    THEN Raise(Msg("DuplicateNameViolation"))
    ELSE IF Dangling(jobs) # {}
         THEN Raise(MsgOf("CycleViolation", CHOOSE e \in Dangling(jobs) : TRUE))
         ELSE LET cycle == FindCycle(jobs, DependsMap(jobs), 1, {})
              IN IF cycle # <<>> THEN Raise(MsgOf("CycleViolation", cycle))
                 ELSE Return(jobs)

CrossRecordPass(jobs) ==
    IF HasDuplicateNames(jobs)
    THEN Raise(Msg("DuplicateNameViolation"))
    ELSE IF Dangling(jobs) # {}
         THEN Raise(MsgOf("DanglingReferenceViolation", CHOOSE e \in Dangling(jobs) : TRUE))
         ELSE LET cycle == FindCycle(jobs, DependsMap(jobs), 1, {})
              IN IF cycle # <<>> THEN Raise(MsgOf("CycleViolation", cycle))
                 ELSE Return(jobs)

\* max_parallel: default 5, at least 1
PipelineConfig_max_parallel(v) ==
    IF v = None THEN Return(5)
    ELSE IF Get(v) < 1 THEN Raise(Msg("RangeViolation")) ELSE Return(Get(v))

\* retry_attempts: default 3, from 0 to 10
PipelineConfig_retry_attempts(v) ==
    IF v = None THEN Return(3)
    ELSE IF Get(v) < 0 \/ Get(v) > 10 THEN Raise(Msg("RangeViolation")) ELSE Return(Get(v))

\* jobs: non-empty
PipelineConfig_jobs(v) ==
    IF v = <<>> THEN Raise(Msg("RangeViolation")) ELSE Return(v)

\* The field-level pass reports the errors of all fields together; the
\* cross-record pass runs when it found none.
PipelineConfig(jobs, max_parallel, retry_attempts) ==
    LET j == Field("jobs", PipelineConfig_jobs(jobs))
        m == Field("max_parallel", PipelineConfig_max_parallel(max_parallel))
        r == Field("retry_attempts", PipelineConfig_retry_attempts(retry_attempts))
        errs == j.errors \cup m.errors \cup r.errors
    IN IF errs # {} THEN Failed("PipelineConfig", errs)
       ELSE LET f == Field("jobs", CrossRecordPass(jobs))
            IN IF f.errors # {} THEN Failed("PipelineConfig", f.errors)
               ELSE Built("PipelineConfig",
                          [jobs |-> f.val, max_parallel |-> m.val,
                           retry_attempts |-> r.val])

RECURSIVE AddDependents_forward(_, _, _)
\* Mutant: the mapping is built forwards, job -> the jobs it depends on.
AddDependents_forward(jobs, i, g) ==
    IF i > Len(jobs) THEN g
    ELSE AddDependents_forward(jobs, i + 1,
            [n \in DOMAIN g |->
                IF jobs[i].name \in jobs[CHOOSE k \in DOMAIN jobs : jobs[k].name = n].depends_on
                THEN Append(g[n], jobs[i].name) ELSE g[n]])

RECURSIVE AddDependents(_, _, _)
\* For each job in declaration order, append its name to the list of every
\* job it depends on.
AddDependents(jobs, i, g) ==
    IF i > Len(jobs) THEN g
    ELSE AddDependents(jobs, i + 1,
            [n \in DOMAIN g |->
                IF n \in jobs[i].depends_on THEN Append(g[n], jobs[i].name) ELSE g[n]])

\* PipelineConfig.build_dependency_graph(): job name -> the jobs that depend on it
build_dependency_graph(self) ==
    AddDependents(self.jobs, 1, [n \in DeclaredNames(self.jobs) |-> <<>>])

(***************************************************************************)
(* lesson.py: LocalConnection, AzureConnection, ProjectConfig.  type is a  *)
(* str field with a default: a given type is stored whatever it says.      *)
(* An argument that is None here is a keyword the call does not pass.      *)
(***************************************************************************)
Required(field, v) ==
    IF v = None THEN {Err(<<field>>, Msg("Field required"))} ELSE {}

Default(v, d) == IF v = None THEN d ELSE Get(v)

LocalConnection(type, base_path) ==
    LET errs == Required("base_path", base_path)
    IN IF errs # {} THEN Failed("LocalConnection", errs)
       ELSE Built("LocalConnection",
                  [class |-> "LocalConnection", type |-> Default(type, "local"),
                   base_path |-> Get(base_path)])

AzureConnection(type, account, container) ==
    LET errs == Required("account", account) \cup Required("container", container)
    IN IF errs # {} THEN Failed("AzureConnection", errs)
       ELSE Built("AzureConnection",
                  [class |-> "AzureConnection", type |-> Default(type, "azure"),
                   account |-> Get(account), container |-> Get(container)])

\* What each member of Union[LocalConnection, AzureConnection] makes of the
\* document; a key that names no field of the member is ignored.
ConnectionType_members(doc) ==
    {LocalConnection(doc.type, doc.base_path),
     AzureConnection(doc.type, doc.account, doc.container)}

\* Union[LocalConnection, AzureConnection] declares no discriminator: the
\* document is validated against the members and a member that accepts it
\* is the result; which one, when both accept it, depends on the pydantic
\* release.  The set of the results a decode can give.
ConnectionType(doc) ==
    LET ok == {m \in ConnectionType_members(doc) : m.ok}
    IN IF ok # {} THEN ok
       ELSE {Failed("ConnectionType",
                    UNION {Under(m.cls, m.errors) : m \in ConnectionType_members(doc)})}

\* connections: Dict[str, Union[LocalConnection, AzureConnection]], given as
\* a dict of documents.  The set of the results construction can give.
ProjectConfig(name, connections) ==
    LET choices == {f \in [DOMAIN connections ->
                             UNION {ConnectionType(connections[k]) : k \in DOMAIN connections}] :
                        \A k \in DOMAIN connections : f[k] \in ConnectionType(connections[k])}
    IN {IF \E k \in DOMAIN f : ~f[k].ok
        THEN Failed("ProjectConfig",
                    UNION {Under("connections", Under(k, f[k].errors)) :
                             k \in {j \in DOMAIN f : ~f[j].ok}})
        ELSE Built("ProjectConfig",
                   [name |-> name, connections |-> [k \in DOMAIN f |-> f[k].value]]) :
        f \in choices}

(***************************************************************************)
(* odibi_snippets.py: connection configurations.  type is a ConnectionType *)
(* field with a default: any member of the enumeration is stored.          *)
(***************************************************************************)
odibi_ConnectionType == {"local", "azure_blob", "delta", "sql_server"}

\* type: ConnectionType with the subclass's default
odibi_BaseConnectionConfig_type(type, default) ==
    IF type = None THEN [val |-> default, errors |-> {}]
    ELSE IF Get(type) \in odibi_ConnectionType THEN [val |-> Get(type), errors |-> {}]
    ELSE [val |-> "", errors |-> {Err(<<"type">>, Msg("Input should be 'local', 'azure_blob', 'delta' or 'sql_server'"))}]

odibi_LocalConnectionConfig(type, base_path) ==
    LET t == odibi_BaseConnectionConfig_type(type, "local")
    IN IF t.errors # {} THEN Failed("odibi.LocalConnectionConfig", t.errors)
       ELSE Built("odibi.LocalConnectionConfig",
                  [class |-> "LocalConnectionConfig", type |-> t.val,
                   validation_mode |-> "lazy", base_path |-> Default(base_path, "./data")])

odibi_AzureBlobConnectionConfig(type, account_name, container) ==
    LET t == odibi_BaseConnectionConfig_type(type, "azure_blob")
        errs == t.errors \cup Required("account_name", account_name)
                \cup Required("container", container)
    IN IF errs # {} THEN Failed("odibi.AzureBlobConnectionConfig", errs)
       ELSE Built("odibi.AzureBlobConnectionConfig",
                  [class |-> "AzureBlobConnectionConfig", type |-> t.val,
                   validation_mode |-> "lazy", account_name |-> Get(account_name),
                   container |-> Get(container)])

\* schema_name: str = Field(alias="schema"): construction reads the key
\* schema; a key schema_name names no field and is ignored.
odibi_DeltaConnectionConfig(type, catalog, schema, schema_name) ==
    LET t == odibi_BaseConnectionConfig_type(type, "delta")
        errs == t.errors \cup Required("catalog", catalog) \cup Required("schema", schema)
    IN IF errs # {} THEN Failed("odibi.DeltaConnectionConfig", errs)
       ELSE Built("odibi.DeltaConnectionConfig",
                  [class |-> "DeltaConnectionConfig", type |-> t.val,
                   validation_mode |-> "lazy", catalog |-> Get(catalog),
                   schema_name |-> Get(schema)])

(***************************************************************************)
(* exercises.py: ScheduleConfig.  The class is declared with its body left *)
(* to be written; its validation is the specification's: interval_seconds, *)
(* when provided, is at least 60, and exactly one of cron and              *)
(* interval_seconds is non-empty.                                          *)
(***************************************************************************)
\* interval_seconds: Optional[int] = None, at least 60 if provided
ScheduleConfig_interval_seconds(v) ==
    IF v # None /\ Get(v) < 60 THEN Raise(Msg("RangeViolation")) ELSE Return(v)

\* Mutant: a schedule that gives both cron and interval_seconds passes.
ScheduleConfig_check_at_least_one(self) ==
    IF ~Truthy(self.cron) /\ self.interval_seconds = None
    THEN Raise(Msg("MutualExclusionViolation"))
    ELSE Return(self)

ScheduleConfig_check_exactly_one(self) ==
    IF Truthy(self.cron) = (self.interval_seconds # None)
    THEN Raise(Msg("MutualExclusionViolation"))
    ELSE Return(self)

ScheduleConfig(cron, interval_seconds) ==
    LET i == Field("interval_seconds", ScheduleConfig_interval_seconds(interval_seconds))
        self == [cron |-> cron, interval_seconds |-> i.val]
    IN IF i.errors # {} THEN Failed("ScheduleConfig", i.errors)
       ELSE AfterValidator("ScheduleConfig", self, ScheduleConfig_check_exactly_one(self))

(***************************************************************************)
(* test_basic.py: divide.  a / b on integers is true division; its float   *)
(* result is written as the fraction num/den in lowest terms with den > 0, *)
(* which is the exact value whenever b divides a.                          *)
(***************************************************************************)
Abs(n) == IF n < 0 THEN -n ELSE n

RECURSIVE Gcd(_, _)
Gcd(m, n) == IF n = 0 THEN m ELSE Gcd(n, m % n)

\* a / b for b # 0
TrueDiv(a, b) ==
    LET g == Gcd(Abs(a), Abs(b))
        sign == IF b < 0 THEN -1 ELSE 1
    IN [num |-> (sign * a) \div g, den |-> Abs(b) \div g]

\* Mutant: the zero test is made on the dividend.
divide_tests_dividend(a, b) ==
    IF a = 0 \/ b = 0 THEN Raise(Msg("Cannot divide by zero"))
    ELSE Return(TrueDiv(a, b))

divide(a, b) ==
    IF b = 0 THEN Raise(Msg("Cannot divide by zero"))
    ELSE Return(TrueDiv(a, b))

\* What the caller of a function sees: the value returned or the ValueError raised.
Outcome(fn, r) ==
    IF r.ok THEN Built(fn, r.val) ELSE Failed(fn, {Err(<<>>, r.err)})

(***************************************************************************)
(* model_dump(): the dict of a model's fields by field name, nested models *)
(* dumped in turn, written as a document of the shape construction takes   *)
(* (a key the dict does not have is None).                                 *)
(***************************************************************************)
ReadConfig_model_dump(self) == [path |-> Some(self.path), table |-> None]

WriteConfig_model_dump(self) == [path |-> self.path, table |-> self.table]

TransformStep_model_dump(self) ==
    [sql |-> self.sql, function |-> self.function, operation |-> None]

TransformConfig_model_dump(self) ==
    [steps |-> [i \in DOMAIN self.steps |-> TransformStep_model_dump(self.steps[i])]]

NodeConfig_model_dump(self) == [name |-> self.name, depends_on |-> self.depends_on]

CompleteNodeConfig_model_dump(self) ==
    [name |-> self.name,
     depends_on |-> self.depends_on,
     read |-> IF self.read = None THEN None
              ELSE Some(ReadConfig_model_dump(Get(self.read))),
     transform |-> IF self.transform = None THEN None
                   ELSE Some(TransformConfig_model_dump(Get(self.transform))),
     write |-> IF self.write = None THEN None
               ELSE Some(WriteConfig_model_dump(Get(self.write)))]

\* A LocalConnection or an AzureConnection.
ConnectionType_model_dump(self) ==
    IF self.class = "LocalConnection"
    THEN [type |-> Some(self.type), base_path |-> Some(self.base_path),
          account |-> None, container |-> None]
    ELSE [type |-> Some(self.type), base_path |-> None,
          account |-> Some(self.account), container |-> Some(self.container)]

ProjectConfig_model_dump(self) ==
    [name |-> self.name,
     connections |-> [k \in DOMAIN self.connections |->
                        ConnectionType_model_dump(self.connections[k])]]

\* by_alias is False unless asked for: the key is the field's name, schema_name.
odibi_DeltaConnectionConfig_model_dump(self) ==
    [type |-> Some(self.type), catalog |-> Some(self.catalog), schema |-> None,
     schema_name |-> Some(self.schema_name)]

\* The classes whose instances are dumped and constructed again.
DumpedClasses ==
    {<<"NodeConfig", "lesson">>, <<"CompleteNodeConfig", "lesson">>,
     <<"ProjectConfig", "lesson">>, <<"DeltaConnectionConfig", "odibi">>}

model_dump(cls, self) ==
    CASE cls = "NodeConfig" -> NodeConfig_model_dump(self)
      [] cls = "CompleteNodeConfig" -> CompleteNodeConfig_model_dump(self)
      [] cls = "ProjectConfig" -> ProjectConfig_model_dump(self)
      [] cls = "DeltaConnectionConfig" -> odibi_DeltaConnectionConfig_model_dump(self)

\* cls(**doc): the results constructing the class from the document can give.
Construct(cls, doc) ==
    CASE cls = "NodeConfig" -> {NodeConfig(doc.name, doc.depends_on)}
      [] cls = "CompleteNodeConfig" ->
            {CompleteNodeConfig(doc.name, doc.depends_on, doc.read, doc.transform, doc.write)}
      [] cls = "ProjectConfig" -> ProjectConfig(doc.name, doc.connections)
      [] cls = "DeltaConnectionConfig" ->
            {odibi_DeltaConnectionConfig(doc.type, doc.catalog, doc.schema, doc.schema_name)}

(***************************************************************************)
(* The documents construction is called with.                              *)
(***************************************************************************)
Sources == {"odibi", "lesson"}

\* depends_on lists of at most n entries over the given names
ListsUpTo(names, n) == UNION {[1..k -> names] : k \in 0..n}

DepNames == {<<"a">>, <<"1">>}

PathTableDocs == [path : {None, Some("p")}, table : {None, Some("t")}]

ReadDocs == {None} \cup {Some(d) : d \in PathTableDocs}

WriteDocs == {None} \cup {Some(d) : d \in PathTableDocs}

StepDocs == {[sql |-> Some("SELECT 1"), function |-> None, operation |-> None],
             [sql |-> None, function |-> Some("f"), operation |-> None],
             [sql |-> Some("SELECT 1"), function |-> Some("f"), operation |-> None]}

TransformDocs == {None, Some([steps |-> <<>>])} \cup {Some([steps |-> <<d>>]) : d \in StepDocs}

TypeTags == {None, Some("local"), Some("azure"), Some("s3")}

ConnectionDocs ==
    [type : TypeTags, base_path : {None, Some("./data")},
     account : {None, Some("acct")}, container : {None, Some("raw")}]

\* connections dicts: empty, or one named connection
ConnectionMaps ==
    UNION {[keys -> ConnectionDocs] : keys \in {{}, {"local_dev"}}}

odibi_TypeTags == {None, Some("s3")} \cup {Some(t) : t \in odibi_ConnectionType}

StepInputs ==
    [sql : OptStr("SELECT 1"), function : OptStr("f"), operation : {None, Some("op")}]

StepLists == UNION {[1..k -> StepInputs] : k \in 0..MaxSteps}

IntervalInputs == {None} \cup {Some(i) : i \in {-1, 0, 59, 60, 61}}

Calls ==
    [cls : {"ReadConfig", "WriteConfig"}, src : Sources,
     path : OptStr("p"), table : OptStr("t")]
    \cup [cls : {"TransformStep"}, src : Sources, sql : OptStr("SELECT 1"),
          function : OptStr("f"), operation : OptStr("op")]
    \cup [cls : {"NodeConfig"}, src : {"lesson"}, name : NameInputs,
          depends_on : ListsUpTo(DepNames, MaxDeps)]
    \cup [cls : {"PipelineNode"}, src : {"lesson"}, name : {<<"n">>},
          read : ReadDocs, write : WriteDocs]
    \cup [cls : {"CompleteNodeConfig"}, src : {"lesson"}, name : NameInputs,
          depends_on : ListsUpTo({<<"a">>}, MaxDeps),
          read : {None, Some([path |-> Some("p"), table |-> None])},
          transform : {None, Some([steps |-> <<>>]),
                       Some([steps |-> <<[sql |-> Some("SELECT 1"), function |-> None,
                                          operation |-> None]>>])},
          write : {None, Some([path |-> Some("p"), table |-> None]),
                   Some([path |-> None, table |-> None])}]
    \cup [cls : {"NodeConfig"}, src : {"odibi"}, name : {<<"n">>},
          depends_on : ListsUpTo({<<"n">>}, MaxDeps),
          read : ReadDocs, transform : {None, Some("TransformConfig")}, write : WriteDocs]
    \cup [cls : {"PipelineConfig"}, src : {"exercises"}, jobs : JobLists,
          max_parallel : {None, Some(0), Some(1), Some(8)},
          retry_attempts : {None} \cup {Some(i) : i \in {-1, 0, 10, 11}}]
    \cup [cls : {"ConnectionConfig"}, src : {"lesson"}, name : {None, Some("db_prod")},
          timeout : {None} \cup {Some(i) : i \in {0, 1, 300, 301, 500}},
          max_retries : {None} \cup {Some(i) : i \in {-1, 0, 10, 11}}]
    \cup [cls : {"RetryConfig"}, src : {"odibi"},
          max_attempts : {None} \cup {Some(i) : i \in {0, 1, 10, 11}}]
    \cup [cls : {"TransformConfig"}, src : {"lesson"}, steps : StepLists]
    \cup [cls : {"divide"}, src : {"test_basic"}, a : -MaxDividend..MaxDividend,
          b : -MaxDivisor..MaxDivisor]
    \cup [cls : {"ScheduleConfig"}, src : {"exercises"}, cron : OptStr("0 * * * *"),
          interval_seconds : IntervalInputs]
    \cup [cls : {"LocalConnection", "AzureConnection"}, src : {"lesson"},
          type : TypeTags, base_path : {None, Some("./data")},
          account : {None, Some("acct")}, container : {None, Some("raw")}]
    \cup [cls : {"ProjectConfig"}, src : {"lesson"}, name : {"my_project"},
          connections : ConnectionMaps]
    \cup [cls : {"LocalConnectionConfig"}, src : {"odibi"}, type : odibi_TypeTags,
          base_path : {None, Some("./data")}]
    \cup [cls : {"AzureBlobConnectionConfig"}, src : {"odibi"}, type : odibi_TypeTags,
          account_name : {None, Some("acct")}, container : {None, Some("raw")}]
    \cup [cls : {"DeltaConnectionConfig"}, src : {"odibi"}, type : odibi_TypeTags,
          catalog : {None, Some("main")}, schema : {None, Some("s")},
          schema_name : {None, Some("s")}]

(***************************************************************************)
(* Construction calls.                                                     *)
(***************************************************************************)
NoGraph == [n \in {} |-> <<>>]

\* No model_dump() has been called.
NoDocument == [n \in {} |-> None]

Init ==
    /\ call \in Calls
    /\ pc = "call"
    /\ ret = Failed("", {})
    /\ graph = NoGraph
    /\ dumped = NoDocument
    /\ rebuilt = Failed("", {})
    /\ heap = <<>>
    /\ held = <<>>
    /\ environ = << >>
    /\ original_env = None
    /\ fs = << >>
    /\ created_files = <<>>
    /\ raised = FALSE

Returns(cls, src, r) ==
    /\ pc = "call"
    /\ call.cls = cls
    /\ call.src = src
    /\ ret' = r
    /\ pc' = "returned"
    /\ UNCHANGED <<call, graph, dumped, rebuilt, heap, held,
                 environ, original_env, fs, created_files, raised>>

NewReadConfig ==
    \/ Returns("ReadConfig", "odibi", odibi_ReadConfig(call.table, call.path))
    \/ Returns("ReadConfig", "lesson", ReadConfig(call.path, call.table))

NewWriteConfig ==
    \/ Returns("WriteConfig", "odibi", odibi_WriteConfig(call.table, call.path))
    \/ Returns("WriteConfig", "lesson", WriteConfig(call.path, call.table))

NewTransformStep ==
    \/ Returns("TransformStep", "odibi",
               odibi_TransformStep(call.sql, call.function, call.operation))
    \/ Returns("TransformStep", "lesson",
               TransformStep(call.sql, call.function, call.operation))

NewNodeConfig ==
    \/ Returns("NodeConfig", "lesson", NodeConfig(call.name, call.depends_on))
    \/ Returns("NodeConfig", "odibi",
               odibi_NodeConfig(call.name, call.depends_on, call.read, call.transform,
                                call.write))

NewPipelineNode ==
    Returns("PipelineNode", "lesson", PipelineNode(call.name, call.read, call.write))

NewCompleteNodeConfig ==
    Returns("CompleteNodeConfig", "lesson",
            CompleteNodeConfig(call.name, call.depends_on, call.read, call.transform,
                               call.write))

NewTransformConfig ==
    Returns("TransformConfig", "lesson", TransformConfig(call.steps))

NewPipelineConfig ==
    Returns("PipelineConfig", "exercises",
            PipelineConfig(call.jobs, call.max_parallel, call.retry_attempts))

NewConnectionConfig ==
    Returns("ConnectionConfig", "lesson",
            ConnectionConfig(call.name, call.timeout, call.max_retries))

NewRetryConfig ==
    Returns("RetryConfig", "odibi", odibi_RetryConfig(call.max_attempts))

NewScheduleConfig ==
    Returns("ScheduleConfig", "exercises",
            ScheduleConfig(call.cron, call.interval_seconds))

CallDivide ==
    Returns("divide", "test_basic", Outcome("divide", divide(call.a, call.b)))

NewLocalConnection ==
    Returns("LocalConnection", "lesson", LocalConnection(call.type, call.base_path))

NewAzureConnection ==
    Returns("AzureConnection", "lesson",
            AzureConnection(call.type, call.account, call.container))

NewProjectConfig ==
    /\ call.cls = "ProjectConfig"
    /\ \E r \in ProjectConfig(call.name, call.connections) :
           Returns("ProjectConfig", "lesson", r)

NewOdibiConnectionConfig ==
    \/ Returns("LocalConnectionConfig", "odibi",
               odibi_LocalConnectionConfig(call.type, call.base_path))
    \/ Returns("AzureBlobConnectionConfig", "odibi",
               odibi_AzureBlobConnectionConfig(call.type, call.account_name, call.container))
    \/ Returns("DeltaConnectionConfig", "odibi",
               odibi_DeltaConnectionConfig(call.type, call.catalog, call.schema,
                                           call.schema_name))

\* d = config.model_dump()
ModelDump ==
    /\ pc = "returned"
    /\ ret.ok
    /\ <<call.cls, call.src>> \in DumpedClasses
    /\ dumped' = model_dump(call.cls, ret.value)
    /\ pc' = "dumped"
    /\ UNCHANGED <<call, ret, graph, rebuilt, heap, held,
                 environ, original_env, fs, created_files, raised>>

\* cls(**d)
ConstructAgain ==
    /\ pc = "dumped"
    /\ rebuilt' \in Construct(call.cls, dumped)
    /\ pc' = "rebuilt"
    /\ UNCHANGED <<call, ret, graph, dumped, heap, held,
                 environ, original_env, fs, created_files, raised>>

BuildDependencyGraph ==
    /\ pc = "returned"
    /\ ret.ok
    /\ ret.cls = "PipelineConfig"
    /\ graph' = build_dependency_graph(ret.value)
    /\ pc' = "graph"
    /\ UNCHANGED <<call, ret, dumped, rebuilt, heap, held,
                 environ, original_env, fs, created_files, raised>>

Next ==
    \/ NewReadConfig
    \/ NewWriteConfig
    \/ NewTransformStep
    \/ NewNodeConfig
    \/ NewPipelineNode
    \/ NewCompleteNodeConfig
    \/ NewTransformConfig
    \/ NewPipelineConfig
    \/ NewConnectionConfig
    \/ NewRetryConfig
    \/ NewScheduleConfig
    \/ NewLocalConnection
    \/ NewAzureConnection
    \/ NewProjectConfig
    \/ NewOdibiConnectionConfig
    \/ CallDivide
    \/ ModelDump
    \/ ConstructAgain
    \/ BuildDependencyGraph

Spec == Init /\ [][Next]_vars

(***************************************************************************)
(* Attribute assignment.  None of the classes sets frozen or               *)
(* validate_assignment, so obj.field = value stores the value without      *)
(* running a validator, and a list field can be appended to in place.      *)
(***************************************************************************)
Constructed == pc = "returned" /\ ret.ok

SetPathOrTable ==
    /\ Constructed
    /\ call.cls = "WriteConfig"
    /\ \E field \in {"path", "table"}, v \in OptStr("q") :
           ret' = [ret EXCEPT !.value[field] = v]
    /\ pc' = "assigned"
    /\ UNCHANGED <<call, graph, dumped, rebuilt, heap, held,
                 environ, original_env, fs, created_files, raised>>

SetOperation ==
    /\ Constructed
    /\ call.cls \in {"PipelineNode", "CompleteNodeConfig"}
    /\ \E field \in {"read", "write"} : ret' = [ret EXCEPT !.value[field] = None]
    /\ pc' = "assigned"
    /\ UNCHANGED <<call, graph, dumped, rebuilt, heap, held,
                 environ, original_env, fs, created_files, raised>>

SetName ==
    /\ Constructed
    /\ call.cls \in {"NodeConfig", "CompleteNodeConfig"}
    /\ \E v \in {<<"A", " ">>, <<"-">>} : ret' = [ret EXCEPT !.value.name = v]
    /\ pc' = "assigned"
    /\ UNCHANGED <<call, graph, dumped, rebuilt, heap, held,
                 environ, original_env, fs, created_files, raised>>

AppendDependency ==
    /\ Constructed
    /\ call.cls \in {"NodeConfig", "CompleteNodeConfig"}
    /\ \E v \in DepNames : ret' = [ret EXCEPT !.value.depends_on = Append(@, v)]
    /\ pc' = "assigned"
    /\ UNCHANGED <<call, graph, dumped, rebuilt, heap, held,
                 environ, original_env, fs, created_files, raised>>

NextAssign ==
    \/ Next
    \/ SetPathOrTable
    \/ SetOperation
    \/ SetName
    \/ AppendDependency

SpecAssign == Init /\ [][NextAssign]_vars

(***************************************************************************)
(* Default collections.  The list and dict fields that have a default are  *)
(* declared Field(default_factory=list) or Field(default_factory=dict).    *)
(* heap holds the collections made so far, a collection's address being    *)
(* its index; held holds the configurations constructed without giving     *)
(* those fields, each field holding the address of its collection.         *)
(***************************************************************************)
\* Mutant: one default collection is made once and given to every instance.
default_factory_shared(h) ==
    IF h = <<>> THEN [heap |-> <<<<>>>>, ref |-> 1] ELSE [heap |-> h, ref |-> 1]

\* default_factory(): list() or dict() makes a new empty collection.
default_factory(h) == [heap |-> Append(h, <<>>), ref |-> Len(h) + 1]

\* ConnectionConfig(name=...): tags and metadata are not given.
ConnectionConfig_defaults(h) ==
    LET t == default_factory(h)
        m == default_factory(t.heap)
    IN [heap |-> m.heap,
        self |-> [cls |-> "ConnectionConfig",
                  refs |-> [f \in {"tags", "metadata"} |->
                              IF f = "tags" THEN t.ref ELSE m.ref]]]

\* NodeConfig(name=...): depends_on is not given.
NodeConfig_defaults(h) ==
    LET d == default_factory(h)
    IN [heap |-> d.heap,
        self |-> [cls |-> "NodeConfig", refs |-> [f \in {"depends_on"} |-> d.ref]]]

Items == {"x"}

InitDefaults ==
    /\ call = [cls |-> "defaults", src |-> "lesson"]
    /\ pc = "defaults"
    /\ ret = Failed("", {})
    /\ graph = NoGraph
    /\ dumped = NoDocument
    /\ rebuilt = Failed("", {})
    /\ heap = <<>>
    /\ held = <<>>
    /\ environ = << >>
    /\ original_env = None
    /\ fs = << >>
    /\ created_files = <<>>
    /\ raised = FALSE

NewWithDefaults ==
    /\ pc = "defaults"
    /\ Len(held) < MaxConfigs
    /\ \E r \in {ConnectionConfig_defaults(heap), NodeConfig_defaults(heap)} :
           /\ heap' = r.heap
           /\ held' = Append(held, r.self)
    /\ UNCHANGED <<call, pc, ret, graph, dumped, rebuilt,
                 environ, original_env, fs, created_files, raised>>

\* config.tags.append(v), config.depends_on.append(v), config.metadata[v] = ...
AppendToDefault ==
    /\ pc = "defaults"
    /\ \E i \in DOMAIN held :
           \E f \in DOMAIN held[i].refs, v \in Items :
               /\ Len(heap[held[i].refs[f]]) < MaxItems
               /\ heap' = [heap EXCEPT ![held[i].refs[f]] = Append(@, v)]
    /\ UNCHANGED <<call, pc, ret, graph, dumped, rebuilt, held,
                 environ, original_env, fs, created_files, raised>>

NextDefaults ==
    \/ NewWithDefaults
    \/ AppendToDefault

SpecDefaults == InitDefaults /\ [][NextDefaults]_vars

(***************************************************************************)
(* The reset_environment fixture.  environ is os.environ, a mapping from   *)
(* the names of the variables that are set to their values; original_env   *)
(* is the fixture's local of that name, None before the fixture first      *)
(* runs.  The fixture is autouse: it is set up before every test and torn  *)
(* down after it, whether the test passed or raised.                       *)
(***************************************************************************)
EnvNames == {"HOME", "PATH", "TEST_MODE"}
EnvValues == {"a", "b"}

\* Mutant: os.environ.clear() removes nothing.
clear_nothing(env) == env

\* dict.copy(): a new mapping with the same items.
copy(env) == [n \in DOMAIN env |-> env[n]]

\* os.environ.clear(): every variable is removed.
clear(env) == [n \in {} |-> env[n]]

\* os.environ.update(other): every item of other is set.
update(env, other) ==
    [n \in DOMAIN env \cup DOMAIN other |-> IF n \in DOMAIN other THEN other[n] ELSE env[n]]

InitEnv ==
    /\ call = [cls |-> "reset_environment", src |-> "conftest_example"]
    /\ pc = "collected"
    /\ ret = Failed("", {})
    /\ graph = NoGraph
    /\ dumped = NoDocument
    /\ rebuilt = Failed("", {})
    /\ heap = <<>>
    /\ held = <<>>
    /\ environ \in UNION {[S -> EnvValues] : S \in SUBSET EnvNames}
    /\ original_env = None
    /\ fs = << >>
    /\ created_files = <<>>
    /\ raised = FALSE

\* reset_environment up to its yield.
reset_environment_setup ==
    /\ pc \in {"collected", "finished"}
    /\ original_env' = Some(copy(environ))
    /\ pc' = "test"
    /\ UNCHANGED <<call, ret, graph, dumped, rebuilt, heap, held,
                   environ, fs, created_files, raised>>

\* The test sets a new variable or overwrites one: os.environ[n] = v.
TestSetsVariable ==
    /\ pc = "test"
    /\ \E n \in EnvNames, v \in EnvValues : environ' = update(environ, [m \in {n} |-> v])
    /\ UNCHANGED <<call, pc, ret, graph, dumped, rebuilt, heap, held,
                   original_env, fs, created_files, raised>>

\* The test deletes a variable: del os.environ[n].
TestDeletesVariable ==
    /\ pc = "test"
    /\ \E n \in DOMAIN environ : environ' = [m \in DOMAIN environ \ {n} |-> environ[m]]
    /\ UNCHANGED <<call, pc, ret, graph, dumped, rebuilt, heap, held,
                   original_env, fs, created_files, raised>>

\* reset_environment after its yield.
reset_environment_teardown ==
    /\ pc = "test"
    /\ \E original \in original_env : environ' = update(clear(environ), original)
    /\ pc' = "finished"
    /\ UNCHANGED <<call, ret, graph, dumped, rebuilt, heap, held,
                   original_env, fs, created_files, raised>>

NextEnv ==
    \/ reset_environment_setup
    \/ TestSetsVariable
    \/ TestDeletesVariable
    \/ reset_environment_teardown

SpecEnv == InitEnv /\ [][NextEnv]_vars

(***************************************************************************)
(* The cleanup_files fixture.  fs is the directory tree: a mapping from    *)
(* the paths that exist to "file" or "dir", a path being the sequence of   *)
(* its components; the parent of a path that exists is a directory.        *)
(* created_files is the fixture's list of that name, and raised tells      *)
(* whether the fixture's teardown raised.                                  *)
(***************************************************************************)
Paths == {<<"out">>, <<"out", "a.txt">>, <<"out", "sub">>, <<"out", "sub", "b.txt">>,
          <<"test.txt">>}
Kinds == {"file", "dir"}

\* path.parent, for a path of more than one component.
parent(path) == SubSeq(path, 1, Len(path) - 1)

\* path is other or lies inside other.
is_relative_to(path, other) ==
    Len(other) <= Len(path) /\ SubSeq(path, 1, Len(other)) = other

DirectoryTrees ==
    {f \in UNION {[S -> Kinds] : S \in SUBSET Paths} :
        \A path \in DOMAIN f :
            Len(path) > 1 => parent(path) \in DOMAIN f /\ f[parent(path)] = "dir"}

\* Mutant: is_file() is true of every path that exists.
is_file_or_dir(f, path) == path \in DOMAIN f

\* Path.exists()
exists(f, path) == path \in DOMAIN f

\* Path.is_file(): false when the path does not exist.
is_file(f, path) == path \in DOMAIN f /\ f[path] = "file"

\* Path.is_dir(): false when the path does not exist.
is_dir(f, path) == path \in DOMAIN f /\ f[path] = "dir"

\* Path.unlink(): raises when the path is missing or is a directory.
unlink(f, path) ==
    IF path \in DOMAIN f /\ f[path] = "file"
    THEN [fs |-> [q \in DOMAIN f \ {path} |-> f[q]], raised |-> FALSE]
    ELSE [fs |-> f, raised |-> TRUE]

\* shutil.rmtree(path): removes the directory and everything inside it;
\* raises when the path is missing or is not a directory.
rmtree(f, path) ==
    IF path \in DOMAIN f /\ f[path] = "dir"
    THEN [fs |-> [q \in {q \in DOMAIN f : ~is_relative_to(q, path)} |-> f[q]],
          raised |-> FALSE]
    ELSE [fs |-> f, raised |-> TRUE]

\* for filepath in created_files: ...   An iteration that raises ends the loop.
RECURSIVE cleanup(_, _)
cleanup(f, files) ==
    IF files = <<>> THEN [fs |-> f, raised |-> FALSE]
    ELSE LET filepath == Head(files)
             r == IF exists(f, filepath)
                  THEN IF is_file(f, filepath) THEN unlink(f, filepath)
                       ELSE IF is_dir(f, filepath) THEN rmtree(f, filepath)
                       ELSE [fs |-> f, raised |-> FALSE]
                  ELSE [fs |-> f, raised |-> FALSE]
         IN IF r.raised THEN r ELSE cleanup(r.fs, Tail(files))

InitCleanup ==
    /\ call = [cls |-> "cleanup_files", src |-> "conftest_example"]
    /\ pc = "collected"
    /\ ret = Failed("", {})
    /\ graph = NoGraph
    /\ dumped = NoDocument
    /\ rebuilt = Failed("", {})
    /\ heap = <<>>
    /\ held = <<>>
    /\ environ = << >>
    /\ original_env = None
    /\ fs \in DirectoryTrees
    /\ created_files = <<>>
    /\ raised = FALSE

\* cleanup_files up to its yield.
cleanup_files_setup ==
    /\ pc \in {"collected", "finished"}
    /\ created_files' = <<>>
    /\ pc' = "test"
    /\ UNCHANGED <<call, ret, graph, dumped, rebuilt, heap, held,
                   environ, original_env, fs, raised>>

\* The test calls cleanup_files(filepath).
track_file ==
    /\ pc = "test"
    /\ Len(created_files) < MaxTracked
    /\ \E filepath \in Paths : created_files' = Append(created_files, filepath)
    /\ UNCHANGED <<call, pc, ret, graph, dumped, rebuilt, heap, held,
                   environ, original_env, fs, raised>>

\* The test writes a file or makes a directory.
TestCreates ==
    /\ pc = "test"
    /\ \E path \in Paths \ DOMAIN fs, kind \in Kinds :
           /\ Len(path) > 1 => is_dir(fs, parent(path))
           /\ fs' = [q \in DOMAIN fs \cup {path} |-> IF q = path THEN kind ELSE fs[q]]
    /\ UNCHANGED <<call, pc, ret, graph, dumped, rebuilt, heap, held,
                   environ, original_env, created_files, raised>>

\* The test deletes a file or a directory itself.
TestDeletes ==
    /\ pc = "test"
    /\ \E path \in DOMAIN fs :
           fs' = IF is_file(fs, path) THEN unlink(fs, path).fs ELSE rmtree(fs, path).fs
    /\ UNCHANGED <<call, pc, ret, graph, dumped, rebuilt, heap, held,
                   environ, original_env, created_files, raised>>

\* cleanup_files after its yield.
cleanup_files_teardown ==
    /\ pc = "test"
    /\ LET r == cleanup(fs, created_files)
       IN /\ fs' = r.fs
          /\ raised' = r.raised
    /\ pc' = "finished"
    /\ UNCHANGED <<call, ret, graph, dumped, rebuilt, heap, held,
                   environ, original_env, created_files>>

NextCleanup ==
    \/ cleanup_files_setup
    \/ track_file
    \/ TestCreates
    \/ TestDeletes
    \/ cleanup_files_teardown

SpecCleanup == InitCleanup /\ [][NextCleanup]_vars

(***************************************************************************)
(* Properties.                                                             *)
(***************************************************************************)
Returned(cls, src) == pc = "returned" /\ call.cls = cls /\ call.src = src

HasError(text) == \E e \in ret.errors : e.msg.text = text

ErrorAt(loc) == \E e \in ret.errors : e.loc = loc

\* An error is reported at the field or inside it.
ErrorUnder(field) == \E e \in ret.errors : e.loc # <<>> /\ Head(e.loc) = field

\* The number of the given optional strings that are non-empty strings.
NonEmptyCount(opts) == Cardinality({i \in DOMAIN opts : opts[i] \notin {None, Some("")}})

\* ^[a-z0-9_]+$
MatchesPattern(s) == Len(s) >= 1 /\ \A i \in 1..Len(s) : s[i] \in {"a", "i", "1", "_"}

NoRepeats(seq) == \A i, k \in DOMAIN seq : i # k => seq[i] # seq[k]

\* C1: constructing a ReadConfig or a WriteConfig that declares both path and
\* table succeeds if and only if exactly one of path and table is non-empty.
C1_ExactlyOnePathOrTable ==
    (\/ Returned("ReadConfig", "odibi")
     \/ Returned("WriteConfig", "odibi")
     \/ Returned("WriteConfig", "lesson"))
    => (ret.ok <=> NonEmptyCount(<<call.path, call.table>>) = 1)

\* C2: constructing a TransformStep succeeds if and only if exactly one of
\* sql, function and operation is non-empty.
C2_ExactlyOneStepKind ==
    (Returned("TransformStep", "odibi") \/ Returned("TransformStep", "lesson"))
    => (ret.ok <=> NonEmptyCount(<<call.sql, call.function, call.operation>>) = 1)

OperationsGiven ==
    {f \in {"read", "transform", "write"} \cap DOMAIN call : call[f] # None}

OperationsPresent ==
    {f \in {"read", "transform", "write"} \cap DOMAIN ret.value : ret.value[f] # None}

IsOperationNode ==
    \/ Returned("NodeConfig", "odibi")
    \/ Returned("CompleteNodeConfig", "lesson")
    \/ Returned("PipelineNode", "lesson")

\* C3: every successfully constructed node (odibi NodeConfig,
\* CompleteNodeConfig, PipelineNode) has at least one of read, transform,
\* write present, and constructing a node that is given none of them fails.
C3_AtLeastOneOperation ==
    IsOperationNode =>
        /\ ret.ok => OperationsPresent # {}
        /\ OperationsGiven = {} => ~ret.ok

C3_Witness ==
    /\ Returned("CompleteNodeConfig", "lesson")
    /\ OperationsGiven = {}
    /\ call.name = <<"a">>
    /\ ~ret.ok
    /\ HasError("Node '{self.name}' must have at least one operation")

\* C4: a node name is accepted if and only if, trimmed and lowercased, it
\* matches ^[a-z0-9_]+$, and the stored name is that trimmed, lowercased string.
C4_NamePattern ==
    (Returned("NodeConfig", "lesson") \/ Returned("CompleteNodeConfig", "lesson"))
    => LET canonical == lower(strip(call.name))
       IN /\ ~ErrorAt(<<"name">>) <=> MatchesPattern(canonical)
          /\ ret.ok => ret.value.name = canonical

(***************************************************************************)
(* The dependency relation of a job list, stated without the traversal.    *)
(***************************************************************************)
Edges(jobs) ==
    {e \in JobNames \X JobNames :
        \E i \in DOMAIN jobs : jobs[i].name = e[1] /\ e[2] \in jobs[i].depends_on}

RECURSIVE Closure(_)
Closure(R) ==
    LET R2 == R \cup {e \in JobNames \X JobNames :
                        \E m \in JobNames : <<e[1], m>> \in R /\ <<m, e[2]>> \in R}
    IN IF R2 = R THEN R ELSE Closure(R2)

Cyclic(jobs) == \E n \in JobNames : <<n, n>> \in Closure(Edges(jobs))

UniqueNames(jobs) == NoRepeats([i \in DOMAIN jobs |-> jobs[i].name])

AllDeclared(jobs) ==
    \A i \in DOMAIN jobs : \A d \in jobs[i].depends_on :
        \E k \in DOMAIN jobs : jobs[k].name = d

\* c is a closed walk of the relation: every job on it depends on the next,
\* and the last on the first.
IsCycleOf(c, jobs) ==
    /\ Len(c) >= 1
    /\ \A i \in 1..Len(c) : <<c[i], c[(i % Len(c)) + 1]>> \in Edges(jobs)

NamesCycle(jobs) ==
    \E e \in ret.errors : e.msg.text = "CycleViolation" /\ IsCycleOf(e.msg.arg, jobs)

IsPipeline == Returned("PipelineConfig", "exercises")

\* max_parallel and retry_attempts, where given, are in range.
LimitsInRange ==
    /\ call.max_parallel # None => Get(call.max_parallel) >= 1
    /\ call.retry_attempts # None => Get(call.retry_attempts) \in 0..10

IsDependsOnNode ==
    \/ Returned("NodeConfig", "lesson")
    \/ Returned("CompleteNodeConfig", "lesson")
    \/ Returned("NodeConfig", "odibi")

RECURSIVE DependentsOf(_, _)
DependentsOf(jobs, n) ==
    IF jobs = <<>> THEN <<>>
    ELSE IF n \in Head(jobs).depends_on
         THEN <<Head(jobs).name>> \o DependentsOf(Tail(jobs), n)
         ELSE DependentsOf(Tail(jobs), n)

ExampleJobs ==
    <<[name |-> "a", depends_on |-> {}],
      [name |-> "b", depends_on |-> {"a"}],
      [name |-> "c", depends_on |-> {"a", "b"}]>>

\* C9: for every valid pipeline build_dependency_graph has one key per
\* declared job and the value for job J is exactly the list of the jobs whose
\* depends_on contains J; for a, b depending on a, and c depending on a and b
\* it is {a: [b, c], b: [c], c: []}.
C9_ReverseDependencyMapping ==
    pc = "graph" =>
        /\ DOMAIN graph = {call.jobs[i].name : i \in DOMAIN call.jobs}
        /\ \A n \in DOMAIN graph :
               /\ NoRepeats(graph[n])
               /\ {graph[n][i] : i \in DOMAIN graph[n]}
                  = {call.jobs[i].name : i \in {k \in DOMAIN call.jobs :
                                                  n \in call.jobs[k].depends_on}}
               /\ graph[n] = DependentsOf(call.jobs, n)
        /\ call.jobs = ExampleJobs
           => graph = [n \in {"a", "b", "c"} |->
                         CASE n = "a" -> <<"b", "c">>
                           [] n = "b" -> <<"c">>
                           [] OTHER -> <<>>]

C9_Witness ==
    /\ pc = "graph"
    /\ call.jobs = ExampleJobs
    /\ graph["a"] = <<"b", "c">>
    /\ graph["b"] = <<"c">>
    /\ graph["c"] = <<>>

\* C10: a configuration is immutable after construction, so every validated
\* invariant (exactly one of path and table, at least one operation, canonical
\* name, no duplicate dependencies) holds in every state reachable after
\* construction.
C10_InvariantsAfterConstruction ==
    pc \in {"returned", "assigned"} /\ ret.ok =>
        /\ call.cls = "WriteConfig" /\ call.src = "lesson"
           => NonEmptyCount(<<ret.value.path, ret.value.table>>) = 1
        /\ call.cls \in {"PipelineNode", "CompleteNodeConfig"} => OperationsPresent # {}
        /\ call.cls = "CompleteNodeConfig"
           => CompleteNodeConfig_validate_name(ret.value.name) = Return(ret.value.name)
        /\ call.cls = "NodeConfig" /\ call.src = "lesson" => NoRepeats(ret.value.depends_on)

(***************************************************************************)
(* Failure of a part is failure of the whole.                              *)
(***************************************************************************)
\* What constructing the nested document of the call's field on its own gives.
NestedResult(field) ==
    LET doc == Get(call[field])
    IN CASE field = "read" /\ call.src = "odibi" -> odibi_ReadConfig(doc.table, doc.path)
         [] field = "read" /\ call.src = "lesson" -> ReadConfig(doc.path, doc.table)
         [] field = "write" /\ call.src = "odibi" -> odibi_WriteConfig(doc.table, doc.path)
         [] field = "write" /\ call.src = "lesson" -> WriteConfig(doc.path, doc.table)
         [] field = "transform" -> TransformConfig(doc.steps)

\* The nested documents of the call that are rejected on their own.
InvalidNested ==
    {f \in {"read", "write"} \cap DOMAIN call : call[f] # None /\ ~NestedResult(f).ok}
    \cup {f \in {"transform"} \cap DOMAIN call :
             call.cls = "CompleteNodeConfig" /\ call[f] # None /\ ~NestedResult(f).ok}

\* C11: whenever a field or a nested sub-configuration of a document is
\* invalid (a write configuration with neither path nor table inside a node, an
\* empty name), construction fails and returns no object, not even a partial one.
C11_NoPartialObject ==
    pc = "returned" =>
        /\ ret.errors # {} => ~ret.ok /\ ret.value = <<>>
        /\ IsOperationNode /\ InvalidNested # {}
           => ~ret.ok /\ ret.value = <<>> /\ \A f \in InvalidNested : ErrorUnder(f)
        /\ /\ call.cls \in {"PipelineNode", "CompleteNodeConfig"}
           /\ call.write # None
           /\ NonEmptyCount(<<Get(call.write).path, Get(call.write).table>>) = 0
           => ~ret.ok /\ ret.value = <<>>
        /\ call.cls \in {"NodeConfig", "CompleteNodeConfig"} /\ call.src = "lesson"
              /\ strip(call.name) = <<>>
           => ~ret.ok /\ ret.value = <<>>

C11_Witness ==
    /\ Returned("CompleteNodeConfig", "lesson")
    /\ call.name = <<"a">>
    /\ call.read # None
    /\ call.write = Some([path |-> None, table |-> None])
    /\ ~ret.ok
    /\ ret.value = <<>>
    /\ ret.errors = {Err(<<"write">>, Msg("Either 'path' or 'table' must be provided"))}

(***************************************************************************)
(* What one failed construction reports.                                   *)
(***************************************************************************)
\* Every reported error carries a location and a message.
ErrorsDescribed == \A e \in ret.errors : e.msg.text # ""

\* The error of the whole-record validator, which has no field location.
ModelLevelError == ErrorAt(<<>>)

\* C12 as stated: one construction call reports every rule the document
\* violates, for example an invalid name together with no read, transform or
\* write.
C12_AllViolationsReported ==
    Returned("CompleteNodeConfig", "lesson") =>
        /\ ErrorsDescribed
        /\ ~CompleteNodeConfig_validate_name(call.name).ok => ErrorAt(<<"name">>)
        /\ \A f \in InvalidNested : ErrorUnder(f)
        /\ OperationsGiven = {} => ModelLevelError

\* C12: one construction call reports every field of the document that is
\* invalid (an invalid name together with an invalid write, or together with a
\* duplicated dependency), each with its field path and message; the
\* whole-record rule is checked, and its violation reported, only when every
\* field passed.
C12_FieldViolationsReported ==
    /\ Returned("CompleteNodeConfig", "lesson") =>
        /\ ErrorsDescribed
        /\ ErrorAt(<<"name">>) <=> ~CompleteNodeConfig_validate_name(call.name).ok
        /\ \A f \in {"read", "transform", "write"} : ErrorUnder(f) <=> f \in InvalidNested
        /\ ModelLevelError <=>
               /\ CompleteNodeConfig_validate_name(call.name).ok
               /\ InvalidNested = {}
               /\ OperationsGiven = {}
    /\ Returned("NodeConfig", "lesson") =>
        /\ ErrorsDescribed
        /\ ErrorAt(<<"name">>) <=> ~NodeConfig_validate_name(call.name).ok
        /\ ErrorAt(<<"depends_on">>) <=> ~NoRepeats(call.depends_on)

C12_Witness ==
    /\ Returned("CompleteNodeConfig", "lesson")
    /\ call.name = <<"-">>
    /\ call.write = Some([path |-> None, table |-> None])
    /\ ret.errors = {Err(<<"name">>, Msg("Name must be alphanumeric with underscores")),
                     Err(<<"write">>, Msg("Either 'path' or 'table' must be provided"))}

(***************************************************************************)
(* Connection variants and their type tags.                                *)
(***************************************************************************)
ConnectionClasses ==
    {"LocalConnection", "AzureConnection", "LocalConnectionConfig",
     "AzureBlobConnectionConfig", "DeltaConnectionConfig"}

\* The tag each variant declares as the default of its type field.
VariantTag(class) ==
    CASE class \in {"LocalConnection", "LocalConnectionConfig"} -> "local"
      [] class = "AzureConnection" -> "azure"
      [] class = "AzureBlobConnectionConfig" -> "azure_blob"
      [] class = "DeltaConnectionConfig" -> "delta"

\* C13: every constructed connection value carries the type tag of its own
\* variant (a LocalConnection has type local, an AzureConnection has type
\* azure), and a document whose type names one variant is never decoded as
\* another variant.
C13_TagIdentifiesVariant ==
    pc = "returned" /\ ret.ok =>
        /\ call.cls \in ConnectionClasses => ret.value.type = VariantTag(ret.value.class)
        /\ call.cls = "ProjectConfig" =>
              \A k \in DOMAIN ret.value.connections :
                  LET c == ret.value.connections[k]
                      d == call.connections[k]
                  IN /\ c.type = VariantTag(c.class)
                     /\ d.type # None => Get(d.type) = VariantTag(c.class)

\* C14: constructing a ScheduleConfig succeeds if and only if exactly one of
\* cron and interval_seconds is provided and, when it is interval_seconds, its
\* value is at least 60; giving neither, giving both, or giving an interval
\* below 60 fails.
C14_ExactlyOneSchedule ==
    Returned("ScheduleConfig", "exercises") =>
        LET cron == NonEmptyCount(<<call.cron>>) = 1
            interval == call.interval_seconds # None
        IN /\ ret.ok <=> \/ cron /\ ~interval
                         \/ ~cron /\ interval /\ Get(call.interval_seconds) >= 60
           /\ ~cron /\ ~interval => ~ret.ok
           /\ cron /\ interval => ~ret.ok
           /\ interval /\ Get(call.interval_seconds) < 60 => ~ret.ok
           /\ ret.ok => ret.value = [cron |-> call.cron,
                                    interval_seconds |-> call.interval_seconds]

C14_Witness ==
    /\ Returned("ScheduleConfig", "exercises")
    /\ call.cron = Some("0 * * * *")
    /\ call.interval_seconds = Some(60)
    /\ ret.errors = {Err(<<>>, Msg("MutualExclusionViolation"))}

(***************************************************************************)
(* Bounded integer fields.                                                 *)
(***************************************************************************)
\* The field was given and its value lies outside lo..hi.
GivenOutside(field, lo, hi) ==
    call[field] # None /\ (Get(call[field]) < lo \/ Get(call[field]) > hi)

\* C15: a PipelineConfig is constructed only when max_parallel is at least 1
\* and retry_attempts is from 0 to 10 (0 is accepted, 11 and negative values
\* are rejected), and the bounded integer fields of every constructed
\* configuration lie in their ranges: ConnectionConfig.timeout in 1..300 and
\* max_retries in 0..10, RetryConfig.max_attempts in 1..10.
C15_BoundedIntegers ==
    /\ IsPipeline =>
        /\ ret.ok => ret.value.max_parallel >= 1 /\ ret.value.retry_attempts \in 0..10
        /\ ErrorAt(<<"max_parallel">>) <=>
               call.max_parallel # None /\ Get(call.max_parallel) < 1
        /\ ErrorAt(<<"retry_attempts">>) <=> GivenOutside("retry_attempts", 0, 10)
        /\ ~LimitsInRange => ~ret.ok
    /\ Returned("ConnectionConfig", "lesson") =>
        /\ ret.ok => ret.value.timeout \in 1..300 /\ ret.value.max_retries \in 0..10
        /\ ErrorAt(<<"timeout">>) <=> GivenOutside("timeout", 1, 300)
        /\ ErrorAt(<<"max_retries">>) <=> GivenOutside("max_retries", 0, 10)
    /\ Returned("RetryConfig", "odibi") =>
        /\ ret.ok => ret.value.max_attempts \in 1..10
        /\ ErrorAt(<<"max_attempts">>) <=> GivenOutside("max_attempts", 1, 10)

C15_Witness ==
    /\ IsPipeline
    /\ call.max_parallel = Some(1)
    /\ call.retry_attempts = Some(0)
    /\ ret.ok
    /\ ret.value.max_parallel = 1
    /\ ret.value.retry_attempts = 0

\* C17: for every constructed node, feeding its stored name back through the
\* name validator is accepted and returns the identical string; the stored
\* name has no surrounding whitespace and no uppercase character.
C17_StoredNameCanonical ==
    pc = "returned" /\ ret.ok =>
        /\ call.cls = "NodeConfig" /\ call.src = "lesson" =>
              /\ NodeConfig_validate_name(ret.value.name) = Return(ret.value.name)
              /\ strip(ret.value.name) = ret.value.name
              /\ lower(ret.value.name) = ret.value.name
        /\ call.cls = "CompleteNodeConfig" =>
              /\ CompleteNodeConfig_validate_name(ret.value.name) = Return(ret.value.name)
              /\ strip(ret.value.name) = ret.value.name
              /\ lower(ret.value.name) = ret.value.name

\* C18: constructing a TransformConfig with an empty list of steps fails, and
\* every constructed TransformConfig holds a non-empty list of steps, in the
\* order given, each of which satisfies the exactly-one-step-kind rule.
C18_NonEmptyOrderedSteps ==
    Returned("TransformConfig", "lesson") =>
        /\ call.steps = <<>>
           => ret.errors = {Err(<<"steps">>, Msg("Transform must have at least one step"))}
        /\ (\E i \in DOMAIN call.steps :
               NonEmptyCount(<<call.steps[i].sql, call.steps[i].function>>) # 1)
           => ~ret.ok /\ ErrorUnder("steps")
        /\ ret.ok =>
              /\ Len(ret.value.steps) >= 1
              /\ Len(ret.value.steps) = Len(call.steps)
              /\ \A i \in DOMAIN ret.value.steps :
                     /\ ret.value.steps[i].sql = call.steps[i].sql
                     /\ ret.value.steps[i].function = call.steps[i].function
                     /\ NonEmptyCount(<<ret.value.steps[i].sql,
                                        ret.value.steps[i].function>>) = 1

C18_Witness ==
    /\ Returned("TransformConfig", "lesson")
    /\ Len(call.steps) = 2
    /\ call.steps[1].sql = Some("SELECT 1")
    /\ call.steps[2].function = Some("f")
    /\ ret.ok
    /\ ret.value.steps = <<[sql |-> Some("SELECT 1"), function |-> None],
                           [sql |-> None, function |-> Some("f")]>>

\* The float q equals the integer n.
EqualsInt(q, n) == q.den = 1 /\ q.num = n

\* C20: divide(a, b) raises ValueError "Cannot divide by zero" if and only if
\* b is 0; otherwise it returns the quotient q, with q * b = a whenever b
\* divides a: divide(10, 2) is 5 and divide(9, 3) is 3.
C20_DivideByZeroOnly ==
    Returned("divide", "test_basic") =>
        /\ ~ret.ok <=> call.b = 0
        /\ ~ret.ok => ret.errors = {Err(<<>>, Msg("Cannot divide by zero"))}
        /\ ret.ok => ret.value.den > 0 /\ ret.value.num * call.b = call.a * ret.value.den
        /\ ret.ok /\ call.a % Abs(call.b) = 0
           => \E q \in -MaxDividend..MaxDividend :
                  EqualsInt(ret.value, q) /\ q * call.b = call.a
        /\ call.a = 10 /\ call.b = 2 => ret.ok /\ EqualsInt(ret.value, 5)
        /\ call.a = 9 /\ call.b = 3 => ret.ok /\ EqualsInt(ret.value, 3)

C20_Witness ==
    /\ Returned("divide", "test_basic")
    /\ call.a = 10
    /\ call.b = 0
    /\ ret.errors = {Err(<<>>, Msg("Cannot divide by zero"))}

(***************************************************************************)
(* Round trip through model_dump().                                        *)
(***************************************************************************)
\* The document the call gave, with the name normalized, absent fields that
\* have a default filled in, and keys that name no field of the class left out.
Canonical ==
    CASE call.cls = "NodeConfig" ->
            [name |-> lower(strip(call.name)), depends_on |-> call.depends_on]
      [] call.cls = "CompleteNodeConfig" ->
            [name |-> lower(strip(call.name)), depends_on |-> call.depends_on,
             read |-> call.read, transform |-> call.transform, write |-> call.write]
      [] call.cls = "ProjectConfig" ->
            [name |-> call.name,
             connections |-> [k \in DOMAIN call.connections |->
                                LET d == call.connections[k]
                                    c == ret.value.connections[k]
                                IN IF c.class = "LocalConnection"
                                   THEN [d EXCEPT !.type = Some(Default(d.type, "local")),
                                                  !.account = None, !.container = None]
                                   ELSE [d EXCEPT !.type = Some(Default(d.type, "azure")),
                                                  !.base_path = None]]]
      [] call.cls = "DeltaConnectionConfig" ->
            [type |-> Some(Default(call.type, "delta")), catalog |-> call.catalog,
             schema |-> call.schema, schema_name |-> None]

\* C16: for every valid document D, constructing the configuration and
\* serializing it with model_dump() yields a document equal to D up to name
\* normalization and filled-in defaults, and constructing again from that
\* document succeeds and yields an equal configuration.
C16_RoundTrip ==
    /\ pc \in {"dumped", "rebuilt"} => dumped = Canonical
    /\ pc = "rebuilt" => rebuilt.ok /\ rebuilt.value = ret.value

(***************************************************************************)
(* Default collections are not shared.                                     *)
(***************************************************************************)
\* The contents of the default collections of configuration i.
Contents(h, configs, i) == [f \in DOMAIN configs[i].refs |-> h[configs[i].refs[f]]]

\* The default collections of the configurations, as (configuration, field).
Collections == {c \in (DOMAIN held) \X {"tags", "metadata", "depends_on"} :
                    c[2] \in DOMAIN held[c[1]].refs}

\* No two default collections are the same collection.
DistinctCollections ==
    \A c, d \in Collections :
        c # d => held[c[1]].refs[c[2]] # held[d[1]].refs[d[2]]

\* A step changes the contents of at most one configuration's collections,
\* and a configuration constructed by the step has empty collections.
OneConfigurationChanges ==
    /\ \A i, k \in DOMAIN held :
           i # k /\ Contents(heap', held', i) # Contents(heap, held, i)
           => Contents(heap', held', k) = Contents(heap, held, k)
    /\ Len(held') > Len(held) =>
           /\ \A f \in DOMAIN held'[Len(held')].refs :
                  Contents(heap', held', Len(held'))[f] = <<>>
           /\ \A i \in DOMAIN held : Contents(heap', held', i) = Contents(heap, held, i)

\* C19: two configurations constructed separately that rely on defaults
\* (depends_on, tags, metadata) hold distinct collections: adding an element to
\* a default collection of one leaves every other configuration, and every
\* configuration constructed later, unchanged.
C19_NoSharedDefaults == []DistinctCollections /\ [][OneConfigurationChanges]_vars

C19_Witness ==
    /\ Len(held) = 3
    /\ held[1].cls = "ConnectionConfig"
    /\ held[2].cls = "ConnectionConfig"
    /\ held[3].cls = "NodeConfig"
    /\ heap[held[1].refs["tags"]] = <<"x">>
    /\ heap[held[2].refs["tags"]] = <<>>
    /\ heap[held[3].refs["depends_on"]] = <<>>

(***************************************************************************)
(* The model validator runs after the fields.                              *)
(***************************************************************************)
\* C21: the at-least-one-operation check of a node runs only after every
\* field of the node passed: when the name is invalid only field errors are
\* reported, and when the check fails its message names the node by its
\* normalized (trimmed, lowercased) name.
C21_ModelValidatorAfterFields ==
    Returned("CompleteNodeConfig", "lesson") =>
        /\ ~CompleteNodeConfig_validate_name(call.name).ok
           => /\ ErrorAt(<<"name">>)
              /\ ~ModelLevelError
              /\ \A f \in InvalidNested : ErrorUnder(f)
        /\ ModelLevelError
           => ret.errors =
                 {Err(<<>>, MsgOf("Node '{self.name}' must have at least one operation",
                                  lower(strip(call.name))))}

C21_Witness ==
    /\ Returned("CompleteNodeConfig", "lesson")
    /\ call.name = <<" ", "A">>
    /\ OperationsGiven = {}
    /\ ret.errors = {Err(<<>>, MsgOf("Node '{self.name}' must have at least one operation",
                                     <<"a">>))}

(***************************************************************************)
(* The two name validators and the two TransformStep classes compared.     *)
(***************************************************************************)
\* C24: for every input string NodeConfig.validate_name and
\* CompleteNodeConfig.validate_name either both reject it or both accept it
\* and return the same stored name.
C24_NameValidatorsEquivalent ==
    (Returned("NodeConfig", "lesson") \/ Returned("CompleteNodeConfig", "lesson")) =>
        LET first == NodeConfig_validate_name(call.name)
            second == CompleteNodeConfig_validate_name(call.name)
            mine == IF call.cls = "NodeConfig" THEN first ELSE second
        IN /\ ErrorAt(<<"name">>) <=> ~mine.ok
           /\ ret.ok => ret.value.name = mine.val
           /\ first.ok <=> second.ok
           /\ first.ok /\ second.ok => first.val = second.val

\* C25: for every sql and function, each absent, empty or non-empty, and no
\* operation, lesson.py's TransformStep and odibi_snippets.py's TransformStep
\* either both accept the step or both reject it.
C25_TransformStepsAgree ==
    (Returned("TransformStep", "lesson") \/ Returned("TransformStep", "odibi"))
    /\ call.operation = None =>
        LET first == TransformStep(call.sql, call.function, None)
            second == odibi_TransformStep(call.sql, call.function, None)
        IN /\ ret.ok <=> IF call.src = "lesson" THEN first.ok ELSE second.ok
           /\ first.ok <=> second.ok

(***************************************************************************)
(* The fixtures of conftest_example.py.                                    *)
(***************************************************************************)
\* After a teardown the environment is the one the fixture copied.
EnvironmentRestored == pc = "finished" => original_env = {environ}

\* Every test after the first starts in the environment the first started in.
SameSnapshotEveryTest == original_env # None => original_env' = original_env

\* C22: whatever variables a test sets, overwrites or deletes, after the
\* teardown of reset_environment the environment equals the snapshot taken
\* before the test, so no test observes a change made by an earlier test.
C22_EnvironmentRestored == []EnvironmentRestored /\ [][SameSnapshotEveryTest]_vars

C22_Witness ==
    /\ pc = "test"
    /\ original_env = {[n \in {"HOME", "PATH"} |-> "a"]}
    /\ environ = [n \in {"PATH", "TEST_MODE"} |-> "b"]
    /\ ENABLED reset_environment_teardown

\* The paths given to track_file.
Tracked == {created_files[i] : i \in DOMAIN created_files}

\* path is a tracked path or lies inside one.
UnderTracked(path) == \E t \in Tracked : is_relative_to(path, t)

\* After a teardown: it did not raise and no tracked path exists.
TrackedRemoved ==
    pc = "finished" => ~raised /\ \A path \in Tracked : path \notin DOMAIN fs

\* A teardown creates nothing and leaves every path outside the tracked ones
\* as it was.
OthersUntouched ==
    pc = "test" /\ pc' = "finished" =>
        /\ DOMAIN fs' \subseteq DOMAIN fs
        /\ \A path \in DOMAIN fs :
               ~UnderTracked(path) => path \in DOMAIN fs' /\ fs'[path] = fs[path]

\* C23: for any sequence of track_file calls (files or directories, a path
\* tracked more than once, a tracked file inside a tracked directory, a tracked
\* path never created or already deleted) the teardown of cleanup_files does
\* not raise and leaves no tracked path existing, while the paths never tracked
\* and outside the tracked directories are untouched.
C23_TrackedPathsRemoved == []TrackedRemoved /\ [][OthersUntouched]_vars

C23_Witness ==
    /\ pc = "finished"
    /\ created_files = <<<<"out", "a.txt">>, <<"out">>, <<"out">>>>
    /\ fs = [path \in {<<"test.txt">>} |-> "file"]
    /\ ~raised

====
